---------------------------- MODULE Spec2Model ----------------------------
(***************************************************************************)
(* Gridscape: the spatial idea-graph engine of src/App.tsx.                *)
(*                                                                         *)
(* The React state of the App component is the state of the model: the     *)
(* node list `ideas`, the single `activeSuggestions` slot, the id counter, *)
(* the session counters and the viewport.  Every event handler is one      *)
(* action; every asynchronous generation chain is a record in `chains`     *)
(* whose `pc` is the provider request the chain is suspended on, and each  *)
(* resumption of a chain (the code between two awaits) is one action.      *)
(*                                                                         *)
(* JavaScript numbers are modelled by integers, `null` and `undefined` by  *)
(* the sentinels Null and Undefined, arrays by sequences.  Array indices   *)
(* stay 0-based as in the code: versions[k] of the code is versions[k + 1] *)
(* here (see VersionAt).  State that only styles the page (isCollapsed,    *)
(* isAutoPanning, the placeholder animation, the topic string sent along   *)
(* with each request) is left out.  The bounds of the model guard the      *)
(* actions in the next-state relations, never the handlers themselves.     *)
(***************************************************************************)
EXTENDS Integers, Sequences, FiniteSets, TLC

---------------------------------------------------------------------------
(* Program constants *)

GRID_GAP == 24
TOOLBAR_HEIGHT == 60
step == 20
maxRings == 40
SUGG_HEIGHT == 32
SUGG_GAP == 12
SUGG_OFFSET_X == 100

Null == "<null>"
Undefined == "<undefined>"
\* the null of activeIdeaId (ids are numbers from 0)
NoId == -1

(* Bounds of the model *)

\* ids ever handed out by ideaIdCounter
MaxIdeas == 2
\* generation chains ever started
MaxChains == 2
\* nodes ever placed in the placement specification
MaxPlaced == 3
\* how far the view may have been panned for another wheel zoom to be tried
MaxPan == 100

---------------------------------------------------------------------------
(* Sample inputs *)

\* rectangles a user draws on the canvas (QuadrantGrid.handleMouseUp passes
\* only rectangles wider and higher than 20)
DrawnRects ==
  { [x |-> 0, y |-> 0, width |-> 40, height |-> 30] }

\* rectangles for the placement specification: two that overlap, and one so
\* large that no ring offset (at most 40 * 20 units) leads out of it
PlacedRects ==
  { [x |-> 0,     y |-> 0,     width |-> 300,  height |-> 200],
    [x |-> 50,    y |-> 50,    width |-> 300,  height |-> 200],
    [x |-> -1000, y |-> -1000, width |-> 2400, height |-> 2400] }

\* what getQuadrantMainContent can resolve to: the parsed JSON of the
\* provider, or the literal fallback '{"text": "", "bridge": null, "terms": []}'
MainResponses ==
  { [text |-> "",      bridge |-> Null,   terms |-> << >>],
    [text |-> "alpha", bridge |-> "then", terms |-> <<"al">>] }

\* messages of the Error a provider call rejects with
ErrorMessages == { "", "quota" }

\* what the model call inside getQuadrantAsciiArt does: answer with a text
\* (possibly blank) or throw
ArtOutcomes == { "art", "throw" }

\* how many paths getSuggestions resolves to (after slice(0, 3))
SuggestionCounts == 0..3

---------------------------------------------------------------------------
(* Geometry kernel *)

Abs(n) == IF n < 0 THEN -n ELSE n

RectOf(r) == [x |-> r.x, y |-> r.y, width |-> r.width, height |-> r.height]

\* faulty variant of isOverlap: the gap is forgotten
isOverlapNoGap(list, newRect, gap) ==
  \E k \in DOMAIN list :
    ~ ( \/ newRect.x + newRect.width <= list[k].x
        \/ newRect.x >= list[k].x + list[k].width
        \/ newRect.y + newRect.height <= list[k].y
        \/ newRect.y >= list[k].y + list[k].height )

\* App.isOverlap, with the node list it closes over made explicit
isOverlap(list, newRect, gap) ==
  \E k \in DOMAIN list :
    ~ ( \/ newRect.x + newRect.width + gap <= list[k].x
        \/ newRect.x >= list[k].x + list[k].width + gap
        \/ newRect.y + newRect.height + gap <= list[k].y
        \/ newRect.y >= list[k].y + list[k].height + gap )

\* the offsets of ring r that pass `if (Math.abs(x) !== r && Math.abs(y) !== r) continue`
Ring(r) ==
  ({ -r, r } \X ((-r)..r)) \cup (((-r)..r) \X { -r, r })

Shift(rect, o) == [rect EXCEPT !.x = rect.x + o[1] * step, !.y = rect.y + o[2] * step]

\* faulty variant of FirstInScan: the last offset of the scan is taken
FirstInScanReversed(offsets) ==
  CHOOSE o \in offsets :
    \A p \in offsets : o[1] > p[1] \/ (o[1] = p[1] /\ o[2] >= p[2])

\* the first element of a set of offsets in the order of the nested loops
\* (x ascending, then y ascending)
FirstInScan(offsets) ==
  CHOOSE o \in offsets :
    \A p \in offsets : o[1] < p[1] \/ (o[1] = p[1] /\ o[2] <= p[2])

RECURSIVE ScanRings(_, _, _)
ScanRings(list, rect, r) ==
  IF r > maxRings THEN rect
  ELSE LET clear == { o \in Ring(r) : ~ isOverlap(list, Shift(rect, o), GRID_GAP) }
       IN  IF clear = {} THEN ScanRings(list, rect, r + 1)
           ELSE Shift(rect, FirstInScan(clear))

\* faulty variant of findValidSpot: the ring search runs even for a clear rectangle
findValidSpotAlwaysScans(list, rect) ==
  ScanRings(list, rect, 1)

\* faulty variant of findValidSpot: an exhausted search moves the rectangle
\* one step past the last ring
findValidSpotPastLastRing(list, rect) ==
  IF ~ isOverlap(list, rect, GRID_GAP) THEN rect
  ELSE IF ScanRings(list, rect, 1) = rect THEN Shift(rect, << maxRings + 1, 0 >>)
  ELSE ScanRings(list, rect, 1)

\* App.findValidSpot
findValidSpot(list, rect) ==
  IF ~ isOverlap(list, rect, GRID_GAP) THEN rect ELSE ScanRings(list, rect, 1)

\* the ring search for `rect` runs through all its rings without a clear offset
PlacementExhausted(list, rect) ==
  /\ isOverlap(list, rect, GRID_GAP)
  /\ \A r \in 1..maxRings : \A o \in Ring(r) : isOverlap(list, Shift(rect, o), GRID_GAP)

---------------------------------------------------------------------------
(* Environment of the viewport: window.innerWidth and window.innerHeight *)

innerWidth == 1200
innerHeight == 800

---------------------------------------------------------------------------
(* State *)

VARIABLES
  ideas,                \* useState<Idea[]>: the node list, in insertion order
  activeSuggestions,    \* useState<Suggestion[]>: the single suggestion slot
  activeIdeaId,         \* useState<number | null>
  ideaIdCounter,        \* useRef(0)
  totalCharsGenerated,  \* useState(0)
  sessionStartTime,     \* useState<number | null>: Null or "now"
  showInitialInput,     \* useState(true)
  panOffset,            \* useState<Point>
  zoom,                 \* useState(1.0), in hundredths
  showTools,            \* ResponseDisplay's useState(false), as the set of
                        \* node ids whose component has it true
  chains,               \* the suspended generation chains, in start order
  started,              \* history: how many chains were ever started
  exhausted             \* history: some placement found no clear ring offset

vars == << ideas, activeSuggestions, activeIdeaId, ideaIdCounter,
           totalCharsGenerated, sessionStartTime, showInitialInput,
           panOffset, zoom, showTools, chains, started, exhausted >>

sessionVars == << totalCharsGenerated, sessionStartTime, showInitialInput >>
viewVars == << panOffset, zoom >>

Ids == 0..(MaxIdeas - 1)

---------------------------------------------------------------------------
(* Sequences as arrays *)

RemoveAt(s, k) == SubSeq(s, 1, k - 1) \o SubSeq(s, k + 1, Len(s))

\* ideas.find(i => i.id === id) !== undefined
HasIdea(list, id) == \E k \in DOMAIN list : list[k].id = id

\* ideas.find(i => i.id === id), for an id that is in the list
FindIdea(list, id) == list[CHOOSE k \in DOMAIN list : list[k].id = id]

IdeaIds(list) == { list[k].id : k \in DOMAIN list }

\* [...list].sort((a, b) => a.id - b.id)
RECURSIVE SortById(_)
SortById(list) ==
  IF list = << >> THEN << >>
  ELSE LET m == CHOOSE k \in DOMAIN list :
                  \A j \in DOMAIN list :
                    list[k].id < list[j].id \/ (list[k].id = list[j].id /\ k <= j)
       IN  << list[m] >> \o SortById(RemoveAt(list, m))

\* versions[idx] of the code (0-based); only for 0 <= idx < versions.length
VersionAt(i, idx) == i.versions[idx + 1]

\* `i.versions[idx]` is truthy
HasVersion(i, idx) == idx >= 0 /\ idx < Len(i.versions)

---------------------------------------------------------------------------
(* Node store *)

\* the object literal of handleRectSelect / handleExploreTerm / ... ;
\* asciiArt and bridgeText are absent from it
NewIdea(id, rect) ==
  [ id |-> id, x |-> rect.x, y |-> rect.y,
    width |-> rect.width, height |-> rect.height,
    text |-> "", asciiArt |-> Undefined, bridgeText |-> Undefined,
    terms |-> << >>, versions |-> << >>, currentVersionIndex |-> -1,
    isLoading |-> TRUE, isAsciiLoading |-> TRUE, error |-> Null ]

\* `data.bridge || undefined`
BridgeOf(bridge) == IF bridge = Null \/ bridge = "" THEN Undefined ELSE bridge

\* faulty variant of AppendVersion: the index is the new length
AppendVersionIndexOffByOne(i, data) ==
  LET newVersion == [ text |-> data.text, asciiArt |-> Undefined,
                      bridgeText |-> BridgeOf(data.bridge), terms |-> data.terms ]
      updatedVersions == Append(i.versions, newVersion)
  IN  [ i EXCEPT !.text = data.text,
                 !.bridgeText = BridgeOf(data.bridge),
                 !.terms = data.terms,
                 !.versions = updatedVersions,
                 !.currentVersionIndex = Len(updatedVersions),
                 !.isLoading = FALSE ]

\* faulty variant of AppendVersion: the new version replaces the last one
AppendVersionOverwriting(i, data) ==
  LET newVersion == [ text |-> data.text, asciiArt |-> Undefined,
                      bridgeText |-> BridgeOf(data.bridge), terms |-> data.terms ]
      updatedVersions == IF i.versions = << >> THEN << newVersion >>
                         ELSE [ i.versions EXCEPT ![Len(i.versions)] = newVersion ]
  IN  [ i EXCEPT !.text = data.text,
                 !.bridgeText = BridgeOf(data.bridge),
                 !.terms = data.terms,
                 !.versions = updatedVersions,
                 !.currentVersionIndex = Len(updatedVersions) - 1,
                 !.isLoading = FALSE ]

\* faulty variant of AppendVersion: an answer with an empty text ends the
\* loading but is not kept as a version
AppendVersionUnlessEmpty(i, data) ==
  LET newVersion == [ text |-> data.text, asciiArt |-> Undefined,
                      bridgeText |-> BridgeOf(data.bridge), terms |-> data.terms ]
      updatedVersions == IF data.text = "" THEN i.versions
                         ELSE Append(i.versions, newVersion)
  IN  [ i EXCEPT !.text = data.text,
                 !.bridgeText = BridgeOf(data.bridge),
                 !.terms = data.terms,
                 !.versions = updatedVersions,
                 !.currentVersionIndex = Len(updatedVersions) - 1,
                 !.isLoading = FALSE ]

\* the updater of the main-content step, for the node with the chain's id
AppendVersion(i, data) ==
  LET newVersion == [ text |-> data.text, asciiArt |-> Undefined,
                      bridgeText |-> BridgeOf(data.bridge), terms |-> data.terms ]
      updatedVersions == Append(i.versions, newVersion)
  IN  [ i EXCEPT !.text = data.text,
                 !.bridgeText = BridgeOf(data.bridge),
                 !.terms = data.terms,
                 !.versions = updatedVersions,
                 !.currentVersionIndex = Len(updatedVersions) - 1,
                 !.isLoading = FALSE ]

\* faulty variant of AttachArt: isAsciiLoading is left as it was
AttachArtKeepsFlag(i, ascii) ==
  LET updatedVersions ==
        IF HasVersion(i, i.currentVersionIndex)
        THEN [ i.versions EXCEPT ![i.currentVersionIndex + 1].asciiArt = ascii ]
        ELSE i.versions
  IN  [ i EXCEPT !.asciiArt = ascii,
                 !.versions = updatedVersions ]

\* faulty variant of AttachArt: the placeholder of a failed art request is
\* attached, but the node is left waiting for its art
AttachArtUnlessFailed(i, ascii) ==
  LET updatedVersions ==
        IF HasVersion(i, i.currentVersionIndex)
        THEN [ i.versions EXCEPT ![i.currentVersionIndex + 1].asciiArt = ascii ]
        ELSE i.versions
  IN  [ i EXCEPT !.asciiArt = ascii,
                 !.versions = updatedVersions,
                 !.isAsciiLoading = (ascii = "(Diagram Calibration Error)" /\ i.isAsciiLoading) ]

\* the updater of the art step, for the node with the chain's id
AttachArt(i, ascii) ==
  LET updatedVersions ==
        IF HasVersion(i, i.currentVersionIndex)
        THEN [ i.versions EXCEPT ![i.currentVersionIndex + 1].asciiArt = ascii ]
        ELSE i.versions
  IN  [ i EXCEPT !.asciiArt = ascii,
                 !.versions = updatedVersions,
                 !.isAsciiLoading = FALSE ]

\* faulty variant of SwitchNode: an index without a version resets the node
SwitchNodeResetting(i, id, index) ==
  IF i.id = id
  THEN IF HasVersion(i, index)
       THEN [ i EXCEPT !.currentVersionIndex = index,
                       !.text = VersionAt(i, index).text,
                       !.asciiArt = VersionAt(i, index).asciiArt,
                       !.bridgeText = VersionAt(i, index).bridgeText,
                       !.terms = VersionAt(i, index).terms ]
       ELSE [ i EXCEPT !.text = "", !.terms = << >> ]
  ELSE i

\* faulty variant of SwitchNode: the live art is left as it was
SwitchNodeKeepingArt(i, id, index) ==
  IF i.id = id /\ HasVersion(i, index)
  THEN [ i EXCEPT !.currentVersionIndex = index,
                  !.text = VersionAt(i, index).text,
                  !.bridgeText = VersionAt(i, index).bridgeText,
                  !.terms = VersionAt(i, index).terms ]
  ELSE i

\* faulty variant of SwitchNode: the versions after the chosen one are dropped
SwitchNodeTruncating(i, id, index) ==
  IF i.id = id /\ HasVersion(i, index)
  THEN [ i EXCEPT !.currentVersionIndex = index,
                  !.text = VersionAt(i, index).text,
                  !.asciiArt = VersionAt(i, index).asciiArt,
                  !.bridgeText = VersionAt(i, index).bridgeText,
                  !.terms = VersionAt(i, index).terms,
                  !.versions = SubSeq(i.versions, 1, index + 1) ]
  ELSE i

\* the updater of handleSwitchVersion, for one node
SwitchNode(i, id, index) ==
  IF i.id = id /\ HasVersion(i, index)
  THEN [ i EXCEPT !.currentVersionIndex = index,
                  !.text = VersionAt(i, index).text,
                  !.asciiArt = VersionAt(i, index).asciiArt,
                  !.bridgeText = VersionAt(i, index).bridgeText,
                  !.terms = VersionAt(i, index).terms ]
  ELSE i

\* faulty variant of MarkLoading: the error of the last failure is left
MarkLoadingKeepingError(i, id) ==
  IF i.id = id
  THEN [ i EXCEPT !.isLoading = TRUE, !.isAsciiLoading = TRUE ]
  ELSE i

\* stage 1 of generateContentForIdea, for one node
MarkLoading(i, id) ==
  IF i.id = id
  THEN [ i EXCEPT !.isLoading = TRUE, !.isAsciiLoading = TRUE, !.error = Null ]
  ELSE i

\* `(err as Error).message || fallback`
ErrorMessageOf(message, fallback) == IF message = "" THEN fallback ELSE message

\* faulty variant of MarkFailed: the live text is cleared with the flags
MarkFailedClearsText(i, id, errorMessage) ==
  IF i.id = id
  THEN [ i EXCEPT !.error = errorMessage, !.isLoading = FALSE,
                  !.isAsciiLoading = FALSE, !.text = "" ]
  ELSE i

\* faulty variant of MarkFailed: isAsciiLoading is left as it was
MarkFailedKeepsArtFlag(i, id, errorMessage) ==
  IF i.id = id
  THEN [ i EXCEPT !.error = errorMessage, !.isLoading = FALSE ]
  ELSE i

\* the updater of the catch block, for one node
MarkFailed(i, id, errorMessage) ==
  IF i.id = id
  THEN [ i EXCEPT !.error = errorMessage, !.isLoading = FALSE, !.isAsciiLoading = FALSE ]
  ELSE i

\* faulty variant of HistoryExcluding: the node's own text is part of the history
HistoryIncludingOwn(list, id) ==
  LET kept == SelectSeq(list, LAMBDA i : i.text # "")
  IN  [ k \in DOMAIN kept |-> SortById(kept)[k].text ]

\* faulty variant of HistoryExcluding: the texts come by descending id
HistoryExcludingDescending(list, id) ==
  LET kept == SelectSeq(list, LAMBDA i : i.id # id /\ i.text # "")
  IN  [ k \in DOMAIN kept |-> SortById(kept)[Len(kept) + 1 - k].text ]

\* history of generateContentForIdea: the other nodes' non-empty live texts by id
HistoryExcluding(list, id) ==
  LET kept == SelectSeq(list, LAMBDA i : i.id # id /\ i.text # "")
  IN  [ k \in DOMAIN kept |-> SortById(kept)[k].text ]

\* currentHistory of the concept handlers: all non-empty live texts by id
HistoryOf(list) ==
  LET kept == SelectSeq(list, LAMBDA i : i.text # "")
  IN  [ k \in DOMAIN kept |-> SortById(kept)[k].text ]

---------------------------------------------------------------------------
(* Viewport *)

\* the panOffset centerOnRect sets: the rectangle's centre on the screen centre
CenterPan(rect, z) ==
  [ x |-> innerWidth \div 2 - ((2 * rect.x + rect.width) * z) \div 200,
    y |-> innerHeight \div 2 - ((2 * rect.y + rect.height) * z) \div 200 ]

\* the rectangle startTopic and handleSubmitNewConcept put at the screen centre
ScreenCentreRect ==
  [ x |-> ((innerWidth \div 2 - 150 - panOffset.x) * 100) \div zoom,
    y |-> ((innerHeight \div 2 - 100 - panOffset.y) * 100) \div zoom,
    width |-> 300, height |-> 200 ]

---------------------------------------------------------------------------
(* ResponseDisplay's local state *)

\* the effect `if (!isActive) setShowTools(false)`, and the unmounting of the
\* components of removed nodes
ToolsAfter(tools, active, list) == { n \in tools : n = active /\ HasIdea(list, n) }

---------------------------------------------------------------------------
(* Generation chains *)

\* a chain suspended on its first request
NewChain(kind, id, rect, history) ==
  [ kind |-> kind, id |-> id, rect |-> RectOf(rect), history |-> history,
    pc |-> IF kind = "grid" THEN "main" ELSE "point",
    verIdx |-> -1, suggestedPaths |-> -1 ]

\* the chains in flight for node id
ChainsOf(id) == { c \in DOMAIN chains : chains[c].id = id }

\* generateContentForIdea up to its first provider call, run on `list`, the
\* node list its first updater is handed
BeginGeneration(list, id, rect) ==
  /\ ideas' = [ k \in DOMAIN list |-> MarkLoading(list[k], id) ]
  /\ activeSuggestions' = << >>
  /\ chains' = Append(chains, NewChain("grid", id, rect, HistoryExcluding(list, id)))
  /\ started' = started + 1

\* the fallback message of the chain's catch block
FallbackOf(kind) == IF kind = "grid" THEN "An error occurred." ELSE "Failed to place concept."

\* getPointForConcept resolved: the chain goes on to getQuadrantMainContent
PointOk(c) ==
  /\ chains[c].pc = "point"
  /\ chains' = [ chains EXCEPT ![c].pc = "main" ]
  /\ UNCHANGED << ideas, activeSuggestions, activeIdeaId, ideaIdCounter,
                  sessionVars, viewVars, showTools, started, exhausted >>

\* faulty variant of ChainFail: the flags are cleared but no error is recorded
ChainFailSilently(c, message) ==
  /\ chains[c].pc \in { "point", "main" }
  /\ ideas' = [ k \in DOMAIN ideas |->
                 IF ideas[k].id = chains[c].id
                 THEN [ ideas[k] EXCEPT !.isLoading = FALSE, !.isAsciiLoading = FALSE ]
                 ELSE ideas[k] ]
  /\ chains' = RemoveAt(chains, c)
  /\ UNCHANGED << activeSuggestions, activeIdeaId, ideaIdCounter,
                  sessionVars, viewVars, showTools, started, exhausted >>

\* the catch block: getPointForConcept or getQuadrantMainContent rejected
ChainFail(c, message) ==
  /\ chains[c].pc \in { "point", "main" }
  /\ ideas' = [ k \in DOMAIN ideas |->
                 MarkFailed(ideas[k], chains[c].id,
                            ErrorMessageOf(message, FallbackOf(chains[c].kind))) ]
  /\ chains' = RemoveAt(chains, c)
  /\ UNCHANGED << activeSuggestions, activeIdeaId, ideaIdCounter,
                  sessionVars, viewVars, showTools, started, exhausted >>

\* faulty variant of MainOk: the art request is issued right after the main
\* content, without a suggestions request
MainOkSkippingSuggestions(c, data) ==
  /\ chains[c].pc = "main"
  /\ totalCharsGenerated' = totalCharsGenerated + Len(data.text)
  /\ ideas' = [ k \in DOMAIN ideas |->
                 IF ideas[k].id = chains[c].id THEN AppendVersion(ideas[k], data)
                 ELSE ideas[k] ]
  /\ chains' = [ chains EXCEPT
                   ![c].pc = "art",
                   ![c].verIdx = IF HasIdea(ideas, chains[c].id)
                                 THEN Len(FindIdea(ideas, chains[c].id).versions)
                                 ELSE -1 ]
  /\ UNCHANGED << activeSuggestions, activeIdeaId, ideaIdCounter,
                  sessionStartTime, showInitialInput, viewVars, showTools, started, exhausted >>

\* getQuadrantMainContent resolved: count the characters, append the version,
\* go on to getSuggestions
MainOk(c, data) ==
  /\ chains[c].pc = "main"
  /\ totalCharsGenerated' = totalCharsGenerated + Len(data.text)
  /\ ideas' = [ k \in DOMAIN ideas |->
                 IF ideas[k].id = chains[c].id THEN AppendVersion(ideas[k], data)
                 ELSE ideas[k] ]
  /\ chains' = [ chains EXCEPT
                   ![c].pc = "sugg",
                   ![c].verIdx = IF HasIdea(ideas, chains[c].id)
                                 THEN Len(FindIdea(ideas, chains[c].id).versions)
                                 ELSE -1 ]
  /\ UNCHANGED << activeSuggestions, activeIdeaId, ideaIdCounter,
                  sessionStartTime, showInitialInput, viewVars, showTools, started, exhausted >>

\* the texts getSuggestions resolves to
SuggestedPaths == << "practical", "philosophical", "historical" >>

\* faulty variant of Materialize: the new suggestions are added to the slot
MaterializeMerging(id, rect, n) ==
  LET totalHeight == (SUGG_HEIGHT * 3) + (SUGG_GAP * 2)
      startY == rect.y + rect.height \div 2 - totalHeight \div 2
  IN  activeSuggestions \o
      [ k \in 1..n |->
          [ id |-> << id, k - 1 >>, sourceId |-> id, text |-> SuggestedPaths[k],
            x |-> rect.x + rect.width + SUGG_OFFSET_X,
            y |-> startY + (k - 1) * (SUGG_HEIGHT + SUGG_GAP),
            width |-> 0, height |-> SUGG_HEIGHT ] ]

\* faulty variant of Materialize: fewer than three paths give no suggestions
MaterializeOnlyFull(id, rect, n) ==
  LET totalHeight == (SUGG_HEIGHT * 3) + (SUGG_GAP * 2)
      startY == rect.y + rect.height \div 2 - totalHeight \div 2
  IN  [ k \in 1..(IF n < 3 THEN 0 ELSE n) |->
          [ id |-> << id, k - 1 >>, sourceId |-> id, text |-> SuggestedPaths[k],
            x |-> rect.x + rect.width + SUGG_OFFSET_X,
            y |-> startY + (k - 1) * (SUGG_HEIGHT + SUGG_GAP),
            width |-> 0, height |-> SUGG_HEIGHT ] ]

\* the suggestion objects built from the chain's rectangle
Materialize(id, rect, n) ==
  LET totalHeight == (SUGG_HEIGHT * 3) + (SUGG_GAP * 2)
      startY == rect.y + rect.height \div 2 - totalHeight \div 2
  IN  [ k \in 1..n |->
          [ id |-> << id, k - 1 >>, sourceId |-> id, text |-> SuggestedPaths[k],
            x |-> rect.x + rect.width + SUGG_OFFSET_X,
            y |-> startY + (k - 1) * (SUGG_HEIGHT + SUGG_GAP),
            width |-> 0, height |-> SUGG_HEIGHT ] ]

\* faulty variant of SuggestionsReturn: an empty answer clears the slot
SuggestionsReturnClearing(c, n) ==
  /\ chains[c].pc = "sugg"
  /\ activeSuggestions' = Materialize(chains[c].id, chains[c].rect, n)
  /\ chains' = [ chains EXCEPT ![c].pc = "art", ![c].suggestedPaths = n ]
  /\ UNCHANGED << ideas, activeIdeaId, ideaIdCounter, sessionVars, viewVars, showTools, started, exhausted >>

\* getSuggestions resolved (it never rejects): `if (suggestedPaths.length > 0)`
\* replace the suggestion slot, then go on to getQuadrantAsciiArt
SuggestionsReturn(c, n) ==
  /\ chains[c].pc = "sugg"
  /\ activeSuggestions' = IF n > 0 THEN Materialize(chains[c].id, chains[c].rect, n)
                          ELSE activeSuggestions
  /\ chains' = [ chains EXCEPT ![c].pc = "art", ![c].suggestedPaths = n ]
  /\ UNCHANGED << ideas, activeIdeaId, ideaIdCounter, sessionVars, viewVars, showTools, started, exhausted >>

\* what getQuadrantAsciiArt resolves to: the trimmed text, the placeholder for a
\* blank answer, or the placeholder of its own catch block (it never rejects)
AsciiOf(outcome) ==
  IF outcome = "throw" THEN "(Diagram Calibration Error)"
  ELSE IF outcome = "" THEN "(Schematic Unavailable)"
  ELSE outcome

\* faulty variant of ArtReturn: the art is attached to every node
ArtReturnToAll(c, outcome) ==
  /\ chains[c].pc = "art"
  /\ ideas' = [ k \in DOMAIN ideas |-> AttachArt(ideas[k], AsciiOf(outcome)) ]
  /\ chains' = RemoveAt(chains, c)
  /\ UNCHANGED << activeSuggestions, activeIdeaId, ideaIdCounter,
                  sessionVars, viewVars, showTools, started, exhausted >>

\* getQuadrantAsciiArt resolved: attach the art, the chain ends
ArtReturn(c, outcome) ==
  /\ chains[c].pc = "art"
  /\ ideas' = [ k \in DOMAIN ideas |->
                 IF ideas[k].id = chains[c].id THEN AttachArt(ideas[k], AsciiOf(outcome))
                 ELSE ideas[k] ]
  /\ chains' = RemoveAt(chains, c)
  /\ UNCHANGED << activeSuggestions, activeIdeaId, ideaIdCounter,
                  sessionVars, viewVars, showTools, started, exhausted >>

---------------------------------------------------------------------------
(* Event handlers of App *)

\* handleRectSelect: place, insert, centre, start the chain
RectSelect(rect) ==
  /\ LET snappedRect == findValidSpot(ideas, rect)
         newIdeaId == ideaIdCounter
     IN  /\ ideaIdCounter' = ideaIdCounter + 1
         /\ panOffset' = CenterPan(snappedRect, zoom)
         /\ BeginGeneration(Append(ideas, NewIdea(newIdeaId, snappedRect)),
                            newIdeaId, snappedRect)
         /\ exhausted' = (exhausted \/ PlacementExhausted(ideas, rect))
  /\ UNCHANGED << activeIdeaId, sessionVars, zoom, showTools >>

\* faulty variant of StartTopic: a new topic numbers its nodes from 0 again
StartTopicResettingIds ==
  /\ showInitialInput /\ ideas = << >>
  /\ LET centerRect == ScreenCentreRect
         newIdeaId == 0
     IN  /\ ideaIdCounter' = 1
         /\ panOffset' = CenterPan(centerRect, zoom)
         /\ BeginGeneration(<< NewIdea(newIdeaId, centerRect) >>, newIdeaId, centerRect)
  /\ showInitialInput' = FALSE
  /\ sessionStartTime' = "now"
  /\ UNCHANGED << activeIdeaId, totalCharsGenerated, zoom, showTools, exhausted >>

\* startTopic, offered by the landing form (isLandingPage): the node list is
\* replaced by the one new node
StartTopic ==
  /\ showInitialInput /\ ideas = << >>
  /\ LET centerRect == ScreenCentreRect
         newIdeaId == ideaIdCounter
     IN  /\ ideaIdCounter' = ideaIdCounter + 1
         /\ panOffset' = CenterPan(centerRect, zoom)
         /\ BeginGeneration(<< NewIdea(newIdeaId, centerRect) >>, newIdeaId, centerRect)
  /\ showInitialInput' = FALSE
  /\ sessionStartTime' = "now"
  /\ UNCHANGED << activeIdeaId, totalCharsGenerated, zoom, showTools, exhausted >>

\* handleRegenerate: `if (idea)` start a chain on the node's current rectangle
Regenerate(id) ==
  /\ HasIdea(ideas, id)
  /\ BeginGeneration(ideas, id, FindIdea(ideas, id))
  /\ UNCHANGED << activeIdeaId, ideaIdCounter, sessionVars, viewVars, showTools, exhausted >>

\* handleSwitchVersion
SwitchVersion(id, index) ==
  /\ ideas' = [ k \in DOMAIN ideas |-> SwitchNode(ideas[k], id, index) ]
  /\ UNCHANGED << activeSuggestions, activeIdeaId, ideaIdCounter,
                  sessionVars, viewVars, showTools, chains, started, exhausted >>

\* faulty variant of RemoveIdea: every removal resets the session counters
RemoveIdeaAlwaysResetting(idToRemove) ==
  LET remaining == SelectSeq(ideas, LAMBDA idea : idea.id # idToRemove)
  IN  /\ ideas' = remaining
      /\ showInitialInput' = TRUE
      /\ sessionStartTime' = Null
      /\ totalCharsGenerated' = 0
      /\ activeIdeaId' = IF activeIdeaId = idToRemove THEN NoId ELSE activeIdeaId
      /\ activeSuggestions' = SelectSeq(activeSuggestions, LAMBDA sg : sg.sourceId # idToRemove)
      /\ showTools' = ToolsAfter(showTools, activeIdeaId', remaining)
      /\ UNCHANGED << ideaIdCounter, viewVars, chains, started, exhausted >>

\* handleRemoveIdea
RemoveIdea(idToRemove) ==
  LET remaining == SelectSeq(ideas, LAMBDA idea : idea.id # idToRemove)
  IN  /\ ideas' = remaining
      /\ IF remaining = << >>
         THEN /\ showInitialInput' = TRUE
              /\ sessionStartTime' = Null
              /\ totalCharsGenerated' = 0
         ELSE UNCHANGED sessionVars
      /\ activeIdeaId' = IF activeIdeaId = idToRemove THEN NoId ELSE activeIdeaId
      /\ activeSuggestions' = SelectSeq(activeSuggestions, LAMBDA sg : sg.sourceId # idToRemove)
      /\ showTools' = ToolsAfter(showTools, activeIdeaId', remaining)
      /\ UNCHANGED << ideaIdCounter, viewVars, chains, started, exhausted >>

\* the band above the active node that its toolbar occupies
ToolbarRect(activeNode) ==
  [ x |-> activeNode.x - 20,
    y |-> activeNode.y - TOOLBAR_HEIGHT - 10,
    width |-> activeNode.width + 40,
    height |-> TOOLBAR_HEIGHT + 10 ]

\* the map callback of handleBringToFront; the centre offsets are doubled,
\* which keeps their signs and the comparison of their absolute values
Nudge(node, id, toolbarRect) ==
  IF node.id = id THEN node
  ELSE LET isOverlapping ==
             ~ ( \/ node.x + node.width < toolbarRect.x
                 \/ node.x > toolbarRect.x + toolbarRect.width
                 \/ node.y + node.height < toolbarRect.y
                 \/ node.y > toolbarRect.y + toolbarRect.height )
           dyCenter == (2 * node.y + node.height) - (2 * toolbarRect.y + toolbarRect.height)
           dxCenter == (2 * node.x + node.width) - (2 * toolbarRect.x + toolbarRect.width)
       IN  IF ~ isOverlapping THEN node
           ELSE IF Abs(dyCenter) > Abs(dxCenter) \/ node.y + node.height > toolbarRect.y
           THEN [ node EXCEPT !.y = node.y + ((toolbarRect.y - (node.y + node.height)) - 10) ]
           ELSE IF dxCenter > 0
           THEN [ node EXCEPT !.x = node.x + ((toolbarRect.x + toolbarRect.width - node.x) + 15) ]
           ELSE [ node EXCEPT !.x = node.x + ((toolbarRect.x - (node.x + node.width)) - 15) ]

\* the updater of handleBringToFront
BroughtToFront(list, id) ==
  IF ~ HasIdea(list, id) THEN list
  ELSE [ k \in DOMAIN list |-> Nudge(list[k], id, ToolbarRect(FindIdea(list, id))) ]

\* handleBringToFront
BringToFront(id) ==
  /\ activeIdeaId' = id
  /\ ideas' = BroughtToFront(ideas, id)
  /\ showTools' = ToolsAfter(showTools, id, ideas)
  /\ UNCHANGED << activeSuggestions, ideaIdCounter, sessionVars, viewVars, chains, started, exhausted >>

Clamp(lo, hi, v) == IF v < lo THEN lo ELSE IF v > hi THEN hi ELSE v

\* the common part of the three concept handlers: place, insert, centre, and
\* start a chain that first resolves the concept's point
CreateFromConcept(rawRect) ==
  LET snappedRect == findValidSpot(ideas, rawRect)
      newIdeaId == ideaIdCounter
  IN  /\ started' = started + 1
      /\ ideaIdCounter' = ideaIdCounter + 1
      /\ ideas' = Append(ideas, NewIdea(newIdeaId, snappedRect))
      /\ panOffset' = CenterPan(snappedRect, zoom)
      /\ chains' = Append(chains, NewChain("concept", newIdeaId, snappedRect, HistoryOf(ideas)))
      /\ exhausted' = (exhausted \/ PlacementExhausted(ideas, rawRect))
      /\ UNCHANGED << sessionVars, zoom >>

\* the values Math.random() takes in handleExploreTerm: the two size
\* multipliers (in tenths, from [0.6, 1.4)) and the vertical jitter (from [-50, 50))
TermDraws == { [ wm |-> 6, hm |-> 13, jitter |-> -50 ], [ wm |-> 10, hm |-> 10, jitter |-> 20 ] }

\* handleExploreTerm
ExploreTerm(term, sourceIdea, draw) ==
  /\ CreateFromConcept(
       [ x |-> sourceIdea.x + sourceIdea.width + 60,
         y |-> sourceIdea.y + draw.jitter,
         width |-> Clamp(200, 500, (sourceIdea.width * draw.wm) \div 10),
         height |-> Clamp(150, 400, (sourceIdea.height * draw.hm) \div 10) ])
  /\ activeIdeaId' = ideaIdCounter
  /\ showTools' = ToolsAfter(showTools, ideaIdCounter, ideas)
  /\ UNCHANGED activeSuggestions

\* 350 * cos(pi / 4), rounded down
diagonal == 247

\* the values Math.random() takes in handleSuggestionClick: the two size
\* multipliers (in tenths, from [0.8, 1.2)) and the side of the diagonal
SuggestionDraws == { [ wm |-> 8, hm |-> 11, isUp |-> TRUE ], [ wm |-> 10, hm |-> 10, isUp |-> FALSE ] }

\* faulty variant of SuggestionClick: the suggestion set is left as it was
SuggestionClickKeepingSet(suggestion, draw) ==
  /\ HasIdea(ideas, suggestion.sourceId)
  /\ LET sourceNode == FindIdea(ideas, suggestion.sourceId)
         newHeight == Clamp(180, 350, (sourceNode.height * draw.hm) \div 10)
     IN  CreateFromConcept(
           [ x |-> suggestion.x + diagonal,
             y |-> suggestion.y + suggestion.height \div 2
                     + (IF draw.isUp THEN -diagonal ELSE diagonal) - newHeight \div 2,
             width |-> Clamp(250, 450, (sourceNode.width * draw.wm) \div 10),
             height |-> newHeight ])
  /\ activeSuggestions' = activeSuggestions
  /\ activeIdeaId' = ideaIdCounter
  /\ showTools' = ToolsAfter(showTools, ideaIdCounter, ideas)

\* handleSuggestionClick: `if (!sourceNode) return`
SuggestionClick(suggestion, draw) ==
  /\ HasIdea(ideas, suggestion.sourceId)
  /\ LET sourceNode == FindIdea(ideas, suggestion.sourceId)
         newHeight == Clamp(180, 350, (sourceNode.height * draw.hm) \div 10)
     IN  CreateFromConcept(
           [ x |-> suggestion.x + diagonal,
             y |-> suggestion.y + suggestion.height \div 2
                     + (IF draw.isUp THEN -diagonal ELSE diagonal) - newHeight \div 2,
             width |-> Clamp(250, 450, (sourceNode.width * draw.wm) \div 10),
             height |-> newHeight ])
  /\ activeSuggestions' = << >>
  /\ activeIdeaId' = ideaIdCounter
  /\ showTools' = ToolsAfter(showTools, ideaIdCounter, ideas)

\* handleSubmitNewConcept, for a non-blank title
SubmitNewConcept ==
  /\ CreateFromConcept(ScreenCentreRect)
  /\ UNCHANGED << activeSuggestions, activeIdeaId, showTools >>

\* `showInitialInput && ideas.length === 0`: the landing form is shown and the
\* controls of the canvas (zoom buttons among them) are not rendered
isLandingPage == showInitialInput /\ ideas = << >>

\* the wheel deltas handleZoom is called with (`-e.deltaY * 0.01`), in hundredths
ZoomDeltas == { -250, 25, 250 }

\* the pointer positions of the wheel events
ZoomCenters == { [ x |-> 600, y |-> 400 ] }

\* the integer nearest to n / d, for d > 0
Nearest(n, d) == (2 * n + d) \div (2 * d)

\* faulty variant of handleZoom: no early return, and the view is scaled by
\* the requested zoom instead of the clamped one
handleZoomPastLimit(delta, center) ==
  LET nextZoom == Clamp(30, 200, zoom + delta)
  IN  /\ zoom' = nextZoom
      /\ panOffset' = [ x |-> center.x - Nearest((center.x - panOffset.x) * (zoom + delta), zoom),
                        y |-> center.y - Nearest((center.y - panOffset.y) * (zoom + delta), zoom) ]
      /\ UNCHANGED << ideas, activeSuggestions, activeIdeaId, ideaIdCounter,
                      sessionVars, showTools, chains, started, exhausted >>

\* handleZoom: clamp, `if (nextZoom === prevZoom) return prevZoom`, and keep the
\* world point under the pointer where it is
handleZoom(delta, center) ==
  LET nextZoom == Clamp(30, 200, zoom + delta)
  IN  /\ nextZoom # zoom
      /\ zoom' = nextZoom
      /\ panOffset' = [ x |-> center.x - Nearest((center.x - panOffset.x) * nextZoom, zoom),
                        y |-> center.y - Nearest((center.y - panOffset.y) * nextZoom, zoom) ]
      /\ UNCHANGED << ideas, activeSuggestions, activeIdeaId, ideaIdCounter,
                      sessionVars, showTools, chains, started, exhausted >>

\* faulty variant of zoomIn: the upper limit is forgotten
zoomInUnclamped ==
  /\ zoom' = zoom + 10
  /\ UNCHANGED << ideas, activeSuggestions, activeIdeaId, ideaIdCounter,
                  sessionVars, panOffset, showTools, chains, started, exhausted >>

\* zoomIn, `Math.min(prev + 0.1, 2.0)`
zoomIn ==
  /\ zoom' = (IF zoom + 10 < 200 THEN zoom + 10 ELSE 200)
  /\ UNCHANGED << ideas, activeSuggestions, activeIdeaId, ideaIdCounter,
                  sessionVars, panOffset, showTools, chains, started, exhausted >>

\* zoomOut, `Math.max(prev - 0.1, 0.3)`
zoomOut ==
  /\ zoom' = (IF zoom - 10 > 30 THEN zoom - 10 ELSE 30)
  /\ UNCHANGED << ideas, activeSuggestions, activeIdeaId, ideaIdCounter,
                  sessionVars, panOffset, showTools, chains, started, exhausted >>

---------------------------------------------------------------------------
(* Event handlers of ResponseDisplay and of the canvas *)

\* the condition under which handleBlockClick shows the toolbar of a node
OffersToolbar(i) == ~ i.isLoading /\ i.text # ""

\* handleBlockClick: bring to front, and show the toolbar of a finished node
BlockClick(id) ==
  /\ HasIdea(ideas, id)
  /\ activeIdeaId' = id
  /\ ideas' = BroughtToFront(ideas, id)
  /\ showTools' = IF ~ FindIdea(ideas, id).isLoading /\ FindIdea(ideas, id).text # ""
                  THEN { id }
                  ELSE ToolsAfter(showTools, id, ideas)
  /\ UNCHANGED << activeSuggestions, ideaIdCounter, sessionVars, viewVars, chains, started, exhausted >>

\* handleCanvasMouseDown on the empty canvas
CanvasMouseDown ==
  /\ activeIdeaId # NoId
  /\ activeIdeaId' = NoId
  /\ showTools' = { }
  /\ UNCHANGED << ideas, activeSuggestions, ideaIdCounter, sessionVars, viewVars, chains, started, exhausted >>

\* the toolbar's "Stack New Version" button
ToolbarRegenerate(id) == id \in showTools /\ Regenerate(id)

\* the toolbar's "Remove" button
ToolbarRemove(id) == id \in showTools /\ RemoveIdea(id)

\* handleCycleVersion, behind the toolbar's version button
CycleVersion(id) ==
  /\ id \in showTools
  /\ HasIdea(ideas, id)
  /\ Len(FindIdea(ideas, id).versions) > 1
  /\ SwitchVersion(id, (FindIdea(ideas, id).currentVersionIndex + 1)
                          % Len(FindIdea(ideas, id).versions))

\* a click on a term of the rendered text of the active node
TermClick(id, term, draw) ==
  /\ HasIdea(ideas, id)
  /\ activeIdeaId = id
  /\ LET idea == FindIdea(ideas, id)
     IN  /\ ~ idea.isLoading /\ idea.error = Null /\ idea.text # ""
         /\ \E k \in DOMAIN idea.terms : idea.terms[k] = term
         /\ ExploreTerm(term, idea, draw)

---------------------------------------------------------------------------
(* Specifications *)

Init ==
  /\ ideas = << >>
  /\ activeSuggestions = << >>
  /\ activeIdeaId = NoId
  /\ ideaIdCounter = 0
  /\ totalCharsGenerated = 0
  /\ sessionStartTime = Null
  /\ showInitialInput = TRUE
  /\ panOffset = [ x |-> 0, y |-> 0 ]
  /\ zoom = 100
  /\ showTools = { }
  /\ chains = << >>
  /\ started = 0
  /\ exhausted = FALSE

SampleTerms == { "al" }

\* the indices handleSwitchVersion is tried with
SwitchIndices == (-1)..MaxChains

\* within the bounds of the model: one more node, one more chain
RoomForIdea == ideaIdCounter < MaxIdeas /\ started < MaxChains
RoomForChain == started < MaxChains

\* the operations of the engine, called at any time with any argument, and
\* the resumptions of the suspended chains with what the provider answered
Next ==
  \/ \E rect \in DrawnRects : RoomForIdea /\ RectSelect(rect)
  \/ RoomForIdea /\ StartTopic
  \/ \E id \in Ids : RoomForChain /\ Regenerate(id)
  \/ \E id \in Ids, index \in SwitchIndices : SwitchVersion(id, index)
  \/ \E id \in Ids : RemoveIdea(id)
  \/ \E k \in DOMAIN ideas, term \in SampleTerms, draw \in TermDraws :
       RoomForIdea /\ ExploreTerm(term, ideas[k], draw)
  \/ \E k \in DOMAIN activeSuggestions, draw \in SuggestionDraws :
       RoomForIdea /\ SuggestionClick(activeSuggestions[k], draw)
  \/ RoomForIdea /\ SubmitNewConcept
  \/ \E c \in DOMAIN chains : PointOk(c)
  \/ \E c \in DOMAIN chains, message \in ErrorMessages : ChainFail(c, message)
  \/ \E c \in DOMAIN chains, data \in MainResponses : MainOk(c, data)
  \/ \E c \in DOMAIN chains, n \in SuggestionCounts : SuggestionsReturn(c, n)
  \/ \E c \in DOMAIN chains, outcome \in ArtOutcomes : ArtReturn(c, outcome)

Spec == Init /\ [][Next]_vars

\* the resumption of the chain in slot c with whatever the provider answered
ChainStep(c) ==
  /\ c \in DOMAIN chains
  /\ \/ PointOk(c)
     \/ \E message \in ErrorMessages : ChainFail(c, message)
     \/ \E data \in MainResponses : MainOk(c, data)
     \/ \E n \in SuggestionCounts : SuggestionsReturn(c, n)
     \/ \E outcome \in ArtOutcomes : ArtReturn(c, outcome)

\* the engine with a provider whose every call eventually resolves or
\* rejects: no suspended chain waits forever
SpecLive == Spec /\ \A c \in 1..MaxChains : WF_vars(ChainStep(c))

\* the same engine driven through the user interface: every operation is
\* offered only where the rendered components offer it
NextUI ==
  \/ \E rect \in DrawnRects : RoomForIdea /\ RectSelect(rect)
  \/ RoomForIdea /\ StartTopic
  \/ \E id \in Ids : BlockClick(id)
  \/ CanvasMouseDown
  \/ \E id \in Ids : RoomForChain /\ ToolbarRegenerate(id)
  \/ \E id \in Ids : ToolbarRemove(id)
  \/ \E id \in Ids : CycleVersion(id)
  \/ \E id \in Ids, term \in SampleTerms, draw \in TermDraws :
       RoomForIdea /\ TermClick(id, term, draw)
  \/ \E k \in DOMAIN activeSuggestions, draw \in SuggestionDraws :
       RoomForIdea /\ SuggestionClick(activeSuggestions[k], draw)
  \/ \E c \in DOMAIN chains : PointOk(c)
  \/ \E c \in DOMAIN chains, message \in ErrorMessages : ChainFail(c, message)
  \/ \E c \in DOMAIN chains, data \in MainResponses : MainOk(c, data)
  \/ \E c \in DOMAIN chains, n \in SuggestionCounts : SuggestionsReturn(c, n)
  \/ \E c \in DOMAIN chains, outcome \in ArtOutcomes : ArtReturn(c, outcome)

SpecUI == Init /\ [][NextUI]_vars

\* placement alone: rectangles are drawn and nodes removed; the chains the
\* drawings start stay suspended on their first request
NextPlace ==
  \/ \E rect \in PlacedRects : ideaIdCounter < MaxPlaced /\ RectSelect(rect)
  \/ \E id \in 0..(MaxPlaced - 1) : RemoveIdea(id)

SpecPlace == Init /\ [][NextPlace]_vars

\* main-content answers with two different non-empty texts, for the
\* specification of the histories
HistoryResponses ==
  MainResponses \cup { [text |-> "beta", bridge |-> Null, terms |-> << >>] }

\* one more node, one more chain, within the bound of the placement
RoomForHistory == ideaIdCounter < MaxPlaced /\ started < MaxPlaced

\* histories: up to MaxPlaced nodes are drawn, explored from a term,
\* regenerated and removed, and the provider gives each request one kind of
\* answer except for the main content
NextHistory ==
  \/ \E rect \in DrawnRects : RoomForHistory /\ RectSelect(rect)
  \/ \E k \in DOMAIN ideas, term \in SampleTerms, draw \in TermDraws :
       RoomForHistory /\ ExploreTerm(term, ideas[k], draw)
  \/ \E id \in 0..(MaxPlaced - 1) : started < MaxPlaced /\ Regenerate(id)
  \/ \E id \in 0..(MaxPlaced - 1) : RemoveIdea(id)
  \/ \E c \in DOMAIN chains : PointOk(c)
  \/ \E c \in DOMAIN chains : ChainFail(c, "")
  \/ \E c \in DOMAIN chains, data \in HistoryResponses : MainOk(c, data)
  \/ \E c \in DOMAIN chains : SuggestionsReturn(c, 0)
  \/ \E c \in DOMAIN chains : ArtReturn(c, "art")

SpecHistory == Init /\ [][NextHistory]_vars

\* nodes in front: up to MaxPlaced rectangles are drawn on one spot, so that
\* the placement sets them close together, any node is brought to the front
\* and nodes are removed; the chains stay suspended on their first request
NextFront ==
  \/ \E rect \in DrawnRects : ideaIdCounter < MaxPlaced /\ RectSelect(rect)
  \/ \E id \in 0..(MaxPlaced - 1) : BringToFront(id)
  \/ \E id \in 0..(MaxPlaced - 1) : RemoveIdea(id)

SpecFront == Init /\ [][NextFront]_vars

\* within the bounds of the model: the view is not too far out
RoomForZoom == Abs(panOffset.x) <= MaxPan /\ Abs(panOffset.y) <= MaxPan

\* the viewport: wheel zooms at any time, with the pointer on the world origin
\* (where the view stays as it is) or on the screen centre, the zoom buttons
\* once the canvas controls are rendered; rectangles are drawn to get there,
\* and their chains stay suspended on their first request
NextView ==
  \/ \E rect \in DrawnRects : ideaIdCounter < MaxIdeas /\ RectSelect(rect)
  \/ \E delta \in ZoomDeltas : handleZoom(delta, panOffset)
  \/ \E delta \in ZoomDeltas, center \in ZoomCenters :
       RoomForZoom /\ handleZoom(delta, center)
  \/ ~ isLandingPage /\ zoomIn
  \/ ~ isLandingPage /\ zoomOut

SpecView == Init /\ [][NextView]_vars

---------------------------------------------------------------------------
(* Reading steps: which chain a step resumed, told from the two states *)

\* the step resumed chain c, which went from one await to the next
Advanced(c, from, to) ==
  /\ started' = started
  /\ chains[c].pc = from
  /\ Len(chains') = Len(chains)
  /\ chains'[c].pc = to

\* the step resumed chain c, which ended there
Ended(c, from) ==
  /\ started' = started
  /\ chains[c].pc = from
  /\ chains' = RemoveAt(chains, c)

\* the step resumed chain c
Resumed(c) ==
  \/ Advanced(c, "point", "main") \/ Advanced(c, "main", "sugg")
  \/ Advanced(c, "sugg", "art")
  \/ Ended(c, "point") \/ Ended(c, "main") \/ Ended(c, "art")

\* h is the texts of the nodes at the positions src of list, one entry per
\* node, in ascending order of the nodes' ids
TextsByIdOf(h, list, src) ==
  /\ Len(h) = Cardinality(src)
  /\ \A k \in src :
       h[Cardinality({ j \in src : list[j].id < list[k].id }) + 1] = list[k].text

\* two rectangles are apart by at least GRID_GAP on some axis
GapClear(a, b) ==
  \/ a.x + a.width + GRID_GAP <= b.x
  \/ b.x + b.width + GRID_GAP <= a.x
  \/ a.y + a.height + GRID_GAP <= b.y
  \/ b.y + b.height + GRID_GAP <= a.y

---------------------------------------------------------------------------
(* Properties *)

\* C1: as long as no placement ran out of ring offsets, no two nodes drawn by
\* handleRectSelect overlap once the 24-unit gap is counted.
C1_NoOverlapUnlessExhausted ==
  ~ exhausted =>
    \A j, k \in DOMAIN ideas : j < k => GapClear(ideas[j], ideas[k])

\* C1, reached: three nodes, one of them moved off the drawn rectangle by the
\* ring search, and no search exhausted
C1_Witness ==
  /\ ~ exhausted
  /\ Len(ideas) = 3
  /\ \E k \in DOMAIN ideas : RectOf(ideas[k]) \notin PlacedRects

\* C2: no node has more than one generation chain in flight.
C2_OneChainPerNode ==
  \A id \in Ids : Cardinality(ChainsOf(id)) <= 1

\* C3: a chain step that finds its node removed leaves the node list and the
\* suggestion set as they were.
C3_RemovedNodeStepsDiscarded ==
  [][ \A c \in DOMAIN chains :
        (Resumed(c) /\ ~ HasIdea(ideas, chains[c].id))
          => (ideas' = ideas /\ activeSuggestions' = activeSuggestions) ]_vars

\* C4: in every node, currentVersionIndex is -1 exactly when versions is empty,
\* and otherwise an index of versions.
C4_VersionIndexValid ==
  \A k \in DOMAIN ideas :
    /\ (ideas[k].currentVersionIndex = -1) <=> (ideas[k].versions = << >>)
    /\ ideas[k].versions # << >> =>
         /\ ideas[k].currentVersionIndex >= 0
         /\ ideas[k].currentVersionIndex < Len(ideas[k].versions)

\* C4, reached: a node with two versions showing the first one
C4_Witness ==
  \E k \in DOMAIN ideas :
    /\ Len(ideas[k].versions) = 2
    /\ ideas[k].currentVersionIndex = 0

\* C5: while a node exists, no step shortens its versions, and a step that
\* lengthens them leaves currentVersionIndex on the last one.
C5_VersionsOnlyGrow ==
  [][ \A j \in DOMAIN ideas : \A k \in DOMAIN ideas' :
        ideas[j].id = ideas'[k].id =>
          /\ Len(ideas'[k].versions) >= Len(ideas[j].versions)
          /\ Len(ideas'[k].versions) > Len(ideas[j].versions) =>
               ideas'[k].currentVersionIndex = Len(ideas'[k].versions) - 1 ]_vars

\* C5, reached: a node whose versions grew twice, the index on the last
C5_Witness ==
  \E k \in DOMAIN ideas :
    /\ Len(ideas[k].versions) >= 2
    /\ ideas[k].currentVersionIndex = Len(ideas[k].versions) - 1

\* C6: the main-content step of a (re)generation appends exactly one version to
\* its node, keeps every earlier version, sets currentVersionIndex to the new
\* last index and the live text to the new version's text; and no step at all
\* changes text, bridgeText or terms of a version that is already there.
C6_RegenerateAppendsOne ==
  [][ /\ \A c \in DOMAIN chains :
           (Advanced(c, "main", "sugg") /\ HasIdea(ideas, chains[c].id)) =>
             LET before == FindIdea(ideas, chains[c].id)
                 after == FindIdea(ideas', chains[c].id)
                 n == Len(before.versions)
             IN  /\ Len(after.versions) = n + 1
                 /\ SubSeq(after.versions, 1, n) = before.versions
                 /\ after.currentVersionIndex = n
                 /\ after.text = after.versions[n + 1].text
      /\ \A j \in DOMAIN ideas : \A k \in DOMAIN ideas' :
           ideas[j].id = ideas'[k].id =>
             \A v \in DOMAIN ideas[j].versions :
               /\ v \in DOMAIN ideas'[k].versions
               /\ ideas'[k].versions[v].text = ideas[j].versions[v].text
               /\ ideas'[k].versions[v].bridgeText = ideas[j].versions[v].bridgeText
               /\ ideas'[k].versions[v].terms = ideas[j].versions[v].terms ]_vars

\* C6, reached: a regenerated node at rest, showing the text of its new version
C6_Witness ==
  \E k \in DOMAIN ideas :
    /\ Len(ideas[k].versions) = 2
    /\ ideas[k].currentVersionIndex = 1
    /\ ideas[k].text = ideas[k].versions[2].text
    /\ ~ ideas[k].isLoading
    /\ ideas[k].versions[1].text # ideas[k].versions[2].text

\* C7: the art step of a chain whose art request succeeded stores the art in
\* the version that chain appended, and changes no other version of the node.
C7_ArtOnOwnVersion ==
  [][ \A c \in DOMAIN chains :
        (Ended(c, "art") /\ HasIdea(ideas, chains[c].id)
          /\ FindIdea(ideas', chains[c].id).asciiArt = "art") =>
          LET before == FindIdea(ideas, chains[c].id)
              after == FindIdea(ideas', chains[c].id)
              own == chains[c].verIdx + 1
          IN  /\ Len(after.versions) = Len(before.versions)
              /\ \A v \in DOMAIN before.versions :
                   IF v = own
                   THEN after.versions[v].asciiArt = after.asciiArt
                   ELSE after.versions[v] = before.versions[v] ]_vars

\* C8: when the main-content request of a chain fails, the chain ends there
\* (no suggestion and no art request follow), its node has a non-null error,
\* both loading flags false and the versions it had, and the suggestion set is
\* untouched; a main-content step that does not fail appends a version.
C8_MainFailure ==
  [][ \A c \in DOMAIN chains :
        (Resumed(c) /\ chains[c].pc = "main") =>
          \/ /\ Advanced(c, "main", "sugg")
             /\ HasIdea(ideas, chains[c].id) =>
                  Len(FindIdea(ideas', chains[c].id).versions)
                    = Len(FindIdea(ideas, chains[c].id).versions) + 1
          \/ /\ Ended(c, "main")
             /\ activeSuggestions' = activeSuggestions
             /\ HasIdea(ideas, chains[c].id) =>
                  LET before == FindIdea(ideas, chains[c].id)
                      after == FindIdea(ideas', chains[c].id)
                  IN  /\ after.error # Null
                      /\ ~ after.isLoading
                      /\ ~ after.isAsciiLoading
                      /\ after.versions = before.versions ]_vars

\* C8, reached: a drawn node whose only main-content request failed
C8_Witness ==
  \E k \in DOMAIN ideas :
    /\ ideas[k].error = "An error occurred."
    /\ ideas[k].versions = << >>
    /\ ~ ideas[k].isLoading
    /\ ~ ideas[k].isAsciiLoading
    /\ ChainsOf(ideas[k].id) = {}

C10_SuggestionSourcesExist ==
  \A k \in DOMAIN activeSuggestions : HasIdea(ideas, activeSuggestions[k].sourceId)

\* C11: the suggestion set holds at most three suggestions, all of one source.
C11_OneSourceAtMostThree ==
  /\ Len(activeSuggestions) <= 3
  /\ \A j, k \in DOMAIN activeSuggestions :
       activeSuggestions[j].sourceId = activeSuggestions[k].sourceId

\* C11, reached: the set is the three suggestions of node 1 although the chain
\* of node 0 has materialized suggestions of its own before
C11_Witness ==
  /\ Len(activeSuggestions) = 3
  /\ \A k \in DOMAIN activeSuggestions : activeSuggestions[k].sourceId = 1
  /\ \E c \in DOMAIN chains :
       chains[c].id = 0 /\ chains[c].pc = "art" /\ chains[c].suggestedPaths > 0

\* C12 as stated: right after a suggestions request returned an empty list the
\* suggestion set is empty.
C12_EmptyAnswerEmptiesSet ==
  [][ \A c \in DOMAIN chains :
        (Advanced(c, "sugg", "art") /\ chains'[c].suggestedPaths = 0)
          => activeSuggestions' = << >> ]_vars

\* C12, amended: a suggestions request that returns an empty list leaves the
\* suggestion set as it was; the set is then empty when this chain is the only
\* one started so far.
C12_EmptyAnswerKeepsSet ==
  [][ \A c \in DOMAIN chains :
        (Advanced(c, "sugg", "art") /\ chains'[c].suggestedPaths = 0)
          => /\ activeSuggestions' = activeSuggestions
             /\ started = 1 => activeSuggestions' = << >> ]_vars

\* C12, reached: a chain got an empty list and the set holds the suggestions of
\* another node
C12_Witness ==
  \E c \in DOMAIN chains :
    /\ chains[c].pc = "art"
    /\ chains[c].suggestedPaths = 0
    /\ activeSuggestions # << >>
    /\ \A k \in DOMAIN activeSuggestions : activeSuggestions[k].sourceId # chains[c].id

\* C13 as stated: after a suggestions request returned fewer than three items
\* the set holds no suggestion of that chain's node.
C13_FewerThanThreeGivesNone ==
  [][ \A c \in DOMAIN chains :
        (Advanced(c, "sugg", "art") /\ chains'[c].suggestedPaths < 3)
          => \A k \in DOMAIN activeSuggestions' :
               activeSuggestions'[k].sourceId # chains[c].id ]_vars

\* C13, amended: a suggestions request that returns one, two or three items
\* makes the suggestion set exactly that many suggestions of the chain's node,
\* numbered from 0 in the order returned.
C13_AnyAnswerMaterialized ==
  [][ \A c \in DOMAIN chains :
        (Advanced(c, "sugg", "art") /\ chains'[c].suggestedPaths > 0)
          => /\ Len(activeSuggestions') = chains'[c].suggestedPaths
             /\ \A k \in DOMAIN activeSuggestions' :
                  /\ activeSuggestions'[k].sourceId = chains[c].id
                  /\ activeSuggestions'[k].id = << chains[c].id, k - 1 >> ]_vars

\* C13, reached: a chain got two items and the set is two suggestions of its node
C13_Witness ==
  \E c \in DOMAIN chains :
    /\ chains[c].pc = "art"
    /\ chains[c].suggestedPaths = 2
    /\ Len(activeSuggestions) = 2
    /\ \A k \in DOMAIN activeSuggestions : activeSuggestions[k].sourceId = chains[c].id

\* C14: handleSwitchVersion with an id that is not in the list, or an index
\* outside [0, versions.length) of its node, yields the node list it was given;
\* and every step that changes nodes but neither their number nor the chains
\* (in Spec such a step is a handleSwitchVersion) is the switch of one node to
\* an index inside that range.
C14_SwitchOutOfRangeNoOp ==
  /\ [] ( \A id \in Ids, index \in SwitchIndices :
            ( \/ ~ HasIdea(ideas, id)
              \/ index < 0
              \/ index >= Len(FindIdea(ideas, id).versions) )
              => [ k \in DOMAIN ideas |-> SwitchNode(ideas[k], id, index) ] = ideas )
  /\ [][ ( /\ chains' = chains /\ started' = started
           /\ Len(ideas') = Len(ideas) /\ ideas' # ideas )
         => \E k \in DOMAIN ideas :
              \E v \in DOMAIN ideas[k].versions :
                ideas' = [ ideas EXCEPT ![k] =
                           [ ideas[k] EXCEPT
                               !.currentVersionIndex = v - 1,
                               !.text = ideas[k].versions[v].text,
                               !.asciiArt = ideas[k].versions[v].asciiArt,
                               !.bridgeText = ideas[k].versions[v].bridgeText,
                               !.terms = ideas[k].versions[v].terms ] ] ]_vars

\* C14, reached: a node without versions next to a node with one version, so
\* that -1, 0 and 1 are each out of range for one of them
C14_Witness ==
  /\ Len(ideas) = 2
  /\ ideas[1].versions # << >>
  /\ ideas[1].currentVersionIndex = 0
  /\ ideas[2].versions = << >>

\* C15: for a rectangle that is clear of every node by the 24-unit gap,
\* findValidSpot returns the same x, y, width and height.
C15_ClearRectangleKept ==
  \A rect \in PlacedRects :
    (\A k \in DOMAIN ideas : GapClear(rect, ideas[k]))
      => findValidSpot(ideas, rect) = rect

\* C15, reached: a node was drawn clear of an earlier node and sits exactly on
\* the drawn rectangle
C15_Witness ==
  /\ Len(ideas) >= 2
  /\ RectOf(ideas[Len(ideas)]) \in PlacedRects
  /\ \A k \in 1..(Len(ideas) - 1) : GapClear(ideas[Len(ideas)], ideas[k])

\* C16: every creation adds one node, with no error; the new node overlaps an
\* earlier one only when the ring search for the drawn rectangle was exhausted,
\* and then it sits on the drawn rectangle itself.
C16_PlacementNeverFails ==
  [][ ideaIdCounter' = ideaIdCounter + 1 =>
        /\ Len(ideas') = Len(ideas) + 1
        /\ SubSeq(ideas', 1, Len(ideas)) = ideas
        /\ ideas'[Len(ideas')].error = Null
        /\ (\E k \in DOMAIN ideas : ~ GapClear(ideas'[Len(ideas')], ideas[k])) =>
             /\ exhausted'
             /\ RectOf(ideas'[Len(ideas')]) \in PlacedRects
             /\ PlacementExhausted(ideas, RectOf(ideas'[Len(ideas')])) ]_vars

\* C16, reached: after an exhausted search the last node overlaps an earlier
\* one, on a drawn rectangle and with no error
C16_Witness ==
  /\ exhausted
  /\ Len(ideas) >= 2
  /\ RectOf(ideas[Len(ideas)]) \in PlacedRects
  /\ ideas[Len(ideas)].error = Null
  /\ \E k \in 1..(Len(ideas) - 1) : ~ GapClear(ideas[Len(ideas)], ideas[k])

\* C17: the history a chain is started with is the non-empty live texts of the
\* nodes other than the chain's own, one entry per node, in ascending order of
\* the nodes' ids.
C17_HistoryByAscendingId ==
  [][ started' = started + 1 =>
        LET c == chains'[Len(chains')]
            src == { k \in DOMAIN ideas : ideas[k].id # c.id /\ ideas[k].text # "" }
        IN  /\ Len(c.history) = Cardinality(src)
            /\ \A k \in src :
                 c.history[Cardinality({ j \in src : ideas[j].id < ideas[k].id }) + 1]
                   = ideas[k].text ]_vars

\* C17, reached: the chain of the third node was started with the two
\* different texts of the earlier nodes
C17_Witness ==
  \E c \in DOMAIN chains :
    /\ chains[c].id = 2
    /\ Len(chains[c].history) = 2
    /\ chains[c].history[1] # chains[c].history[2]

\* C18: the ids in the node list are distinct (ascending in list order) and
\* below the counter; the counter never goes down; and a node that appears in
\* a step carries the value the counter had, so no id is given twice.
C18_IdsNeverReused ==
  /\ [] ( /\ \A j, k \in DOMAIN ideas : j < k => ideas[j].id < ideas[k].id
          /\ \A k \in DOMAIN ideas : ideas[k].id < ideaIdCounter )
  /\ [][ /\ ideaIdCounter' >= ideaIdCounter
         /\ \A k \in DOMAIN ideas' :
              \/ \E j \in DOMAIN ideas : ideas[j].id = ideas'[k].id
              \/ /\ ideas'[k].id = ideaIdCounter
                 /\ ideaIdCounter' = ideaIdCounter + 1 ]_vars

\* C18, reached: node 0 was drawn and removed, and the topic started on the
\* empty list made node 1 (at the screen centre of the view centred on node 0)
C18_Witness ==
  /\ ~ showInitialInput
  /\ ideaIdCounter = 2
  /\ Len(ideas) = 1
  /\ ideas[1].id = 1
  /\ ideas[1].x = -130 /\ ideas[1].y = -85

\* C19: the step in which a chain fails (at the concept's point or at the main
\* content) changes nothing of its node but error, isLoading and
\* isAsciiLoading, no other node, and not the suggestion set.
C19_FailureTouchesOnlyItsNode ==
  [][ \A c \in DOMAIN chains :
        (Ended(c, "point") \/ Ended(c, "main")) =>
          /\ activeSuggestions' = activeSuggestions
          /\ Len(ideas') = Len(ideas)
          /\ \A k \in DOMAIN ideas :
               IF ideas[k].id = chains[c].id
               THEN ideas'[k] = [ ideas[k] EXCEPT
                                    !.error = ideas'[k].error,
                                    !.isLoading = ideas'[k].isLoading,
                                    !.isAsciiLoading = ideas'[k].isAsciiLoading ]
               ELSE ideas'[k] = ideas[k] ]_vars

\* C19, reached: a node with the error of a failed chain keeps its one version
\* and its text, and the suggestions of its other chain are in the set
C19_Witness ==
  /\ activeSuggestions # << >>
  /\ \E k \in DOMAIN ideas :
       /\ ideas[k].error # Null
       /\ ideas[k].text = "alpha"
       /\ Len(ideas[k].versions) = 1
       /\ ideas[k].currentVersionIndex = 0
       /\ ~ ideas[k].isLoading

\* C20: handleRemoveIdea with an id that is not in the node list changes
\* neither the suggestion set nor the session counters. (In Spec a step that
\* leaves the node list, the chains and the id counter as they are is such a
\* call, or a handleSwitchVersion that changes nothing.)
C20_RemoveAbsentIsNoOp ==
  [][ ( /\ ideas' = ideas /\ chains' = chains
        /\ started' = started /\ ideaIdCounter' = ideaIdCounter )
      => ( /\ activeSuggestions' = activeSuggestions
           /\ totalCharsGenerated' = totalCharsGenerated
           /\ sessionStartTime' = sessionStartTime
           /\ showInitialInput' = showInitialInput ) ]_vars


\* C21: a step that removes a node from the store resets the session when the
\* store becomes empty (totalCharsGenerated 0, no session start time, the
\* landing form shown again) and changes no session counter when a node remains.
C21_LastRemovalResetsSession ==
  [][ Len(ideas') < Len(ideas) =>
        /\ Len(ideas') = Len(ideas) - 1
        /\ IF ideas' = << >>
           THEN /\ totalCharsGenerated' = 0
                /\ sessionStartTime' = Null
                /\ showInitialInput'
           ELSE /\ totalCharsGenerated' = totalCharsGenerated
                /\ sessionStartTime' = sessionStartTime
                /\ showInitialInput' = showInitialInput ]_vars

\* C21, reached: of two nodes of a started session the first was removed after
\* a text had been counted, and the counters stand as they were
C21_Witness ==
  /\ Len(ideas) = 1
  /\ ideas[1].id = 1
  /\ totalCharsGenerated = 5
  /\ sessionStartTime = "now"
  /\ ~ showInitialInput


\* C22: for every node that has an error and is not loading, regenerate is
\* offered: the node's toolbar (which holds the regenerate button) is shown, or
\* a click on the node shows it.
C22_RegenerateOfferedOnError ==
  \A k \in DOMAIN ideas :
    (ideas[k].error # Null /\ ~ ideas[k].isLoading) =>
      (ideas[k].id \in showTools \/ OffersToolbar(ideas[k]))


\* C23: the zoom factor lies in [0.3, 2.0] (30 to 200 hundredths) in every
\* state, whatever wheel zooms and zoom-button presses came before.
C23_ZoomWithinRange ==
  zoom >= 30 /\ zoom <= 200

\* C23, reached: with a node on the canvas the zoom stands at the lower limit,
\* after the view was centred on the node at another zoom
C23_Witness ==
  /\ zoom = 30
  /\ ideas # << >>
  /\ panOffset # CenterPan(ideas[Len(ideas)], zoom)


\* C24: every step that starts a chain (a drawn rectangle, a topic, a
\* regeneration, a clicked term, a clicked suggestion) leaves the chain's node
\* with isLoading and isAsciiLoading true and error null, and leaves the
\* suggestion set empty.
C24_StageOneClearsSuggestions ==
  [][ started' = started + 1 =>
        LET node == FindIdea(ideas', chains'[Len(chains')].id)
        IN  /\ node.isLoading
            /\ node.isAsciiLoading
            /\ node.error = Null
            /\ activeSuggestions' = << >> ]_vars


\* C25: a chain goes through its requests in the order main content,
\* suggestions, art. A chain waiting for the main content has applied nothing;
\* the suggestions request is issued in the step that applies the main content
\* (one more version, isLoading false); the art request is issued in the step
\* that handles the suggestions answer; and the step that ends the chain with
\* the art clears isAsciiLoading of a node whose isLoading the chain cleared
\* before. No step moves a chain in any other way.
C25_StagesInOrder ==
  /\ [] ( \A c \in DOMAIN chains :
            /\ chains[c].pc \in { "point", "main", "sugg", "art" }
            /\ chains[c].pc \in { "point", "main" } =>
                 (chains[c].verIdx = -1 /\ chains[c].suggestedPaths = -1)
            /\ chains[c].pc = "sugg" => chains[c].suggestedPaths = -1
            /\ chains[c].pc = "art" => chains[c].suggestedPaths >= 0
            /\ (chains[c].pc \in { "sugg", "art" } /\ HasIdea(ideas, chains[c].id)) =>
                 /\ chains[c].verIdx >= 0
                 /\ chains[c].verIdx < Len(FindIdea(ideas, chains[c].id).versions) )
  /\ [][ /\ chains' # chains =>
             \/ /\ started' = started + 1
                /\ Len(chains') = Len(chains) + 1
                /\ SubSeq(chains', 1, Len(chains)) = chains
                /\ chains'[Len(chains')].pc \in { "point", "main" }
             \/ \E c \in DOMAIN chains : Resumed(c)
         /\ \A c \in DOMAIN chains :
              (Advanced(c, "main", "sugg") /\ HasIdea(ideas, chains[c].id)) =>
                /\ ~ FindIdea(ideas', chains[c].id).isLoading
                /\ Len(FindIdea(ideas', chains[c].id).versions)
                     = Len(FindIdea(ideas, chains[c].id).versions) + 1
                /\ activeSuggestions' = activeSuggestions
         /\ \A c \in DOMAIN chains :
              Advanced(c, "sugg", "art") =>
                /\ chains'[c].suggestedPaths >= 0
                /\ ideas' = ideas
         /\ \A c \in DOMAIN chains :
              (Ended(c, "art") /\ HasIdea(ideas, chains[c].id)) =>
                /\ chains[c].verIdx >= 0
                /\ chains[c].suggestedPaths >= 0
                /\ ~ FindIdea(ideas', chains[c].id).isAsciiLoading ]_vars

\* C25, reached: a chain waits for its art after three suggestions; its node
\* shows the main content and still loads the art
C25_Witness ==
  \E c \in DOMAIN chains :
    /\ chains[c].pc = "art"
    /\ chains[c].verIdx = 0
    /\ chains[c].suggestedPaths = 3
    /\ Len(activeSuggestions) = 3
    /\ HasIdea(ideas, chains[c].id)
    /\ ~ FindIdea(ideas, chains[c].id).isLoading
    /\ FindIdea(ideas, chains[c].id).isAsciiLoading
    /\ FindIdea(ideas, chains[c].id).text = "alpha"


\* C26: no step of a chain changes a node other than the chain's own: every
\* other node keeps its text, versions, currentVersionIndex, flags, error and
\* rectangle, and the node list keeps its length and order.
C26_ChainTouchesOnlyItsNode ==
  [][ \A c \in DOMAIN chains :
        Resumed(c) =>
          /\ Len(ideas') = Len(ideas)
          /\ \A k \in DOMAIN ideas :
               /\ ideas'[k].id = ideas[k].id
               /\ ideas[k].id # chains[c].id => ideas'[k] = ideas[k] ]_vars

\* C26, reached: two nodes at rest after their chains interleaved; each has
\* its one version with its own text and art
C26_Witness ==
  /\ chains = << >>
  /\ started = 2
  /\ Len(ideas) = 2
  /\ ideas[1].text = "alpha" /\ ideas[2].text = ""
  /\ ideas[1].asciiArt = "(Diagram Calibration Error)" /\ ideas[2].asciiArt = "art"
  /\ Len(ideas[1].versions) = 1 /\ Len(ideas[2].versions) = 1


\* C27: in every node with versions, the live text, bridgeText, terms and
\* asciiArt are those of versions[currentVersionIndex].
C27_LiveMirrorsSelected ==
  \A k \in DOMAIN ideas :
    (ideas[k].versions # << >> /\ HasVersion(ideas[k], ideas[k].currentVersionIndex)) =>
      LET selected == VersionAt(ideas[k], ideas[k].currentVersionIndex)
      IN  /\ ideas[k].text = selected.text
          /\ ideas[k].bridgeText = selected.bridgeText
          /\ ideas[k].terms = selected.terms
          /\ ideas[k].asciiArt = selected.asciiArt


\* C28: handleSwitchVersion with the id of a node and an index idx of its
\* versions gives a list in which that node has currentVersionIndex = idx and
\* the text, asciiArt, bridgeText and terms of versions[idx] (an absent
\* asciiArt or bridgeText stays absent), with its versions, rectangle, loading
\* flags and error as before, and every other node as before; and a step that
\* switches a node changes nothing but the node list.
C28_SwitchMirrorsVersion ==
  /\ [] ( \A k \in DOMAIN ideas : \A idx \in 0..(Len(ideas[k].versions) - 1) :
            LET after == [ j \in DOMAIN ideas |-> SwitchNode(ideas[j], ideas[k].id, idx) ]
                chosen == ideas[k].versions[idx + 1]
            IN  /\ after[k].currentVersionIndex = idx
                /\ after[k].text = chosen.text
                /\ after[k].asciiArt = chosen.asciiArt
                /\ after[k].bridgeText = chosen.bridgeText
                /\ after[k].terms = chosen.terms
                /\ after[k].versions = ideas[k].versions
                /\ after[k].id = ideas[k].id
                /\ RectOf(after[k]) = RectOf(ideas[k])
                /\ after[k].isLoading = ideas[k].isLoading
                /\ after[k].isAsciiLoading = ideas[k].isAsciiLoading
                /\ after[k].error = ideas[k].error
                /\ \A j \in DOMAIN ideas : j # k => after[j] = ideas[j] )
  /\ [][ ( /\ chains' = chains /\ started' = started
           /\ Len(ideas') = Len(ideas) /\ ideas' # ideas )
         => /\ UNCHANGED << activeSuggestions, activeIdeaId, ideaIdCounter,
                            sessionVars, viewVars, showTools, exhausted >>
            /\ \A k \in DOMAIN ideas :
                 /\ ideas'[k].versions = ideas[k].versions
                 /\ ideas'[k].currentVersionIndex # ideas[k].currentVersionIndex =>
                      ideas'[k].text = VersionAt(ideas[k], ideas'[k].currentVersionIndex).text ]_vars

\* C28, reached: a node of two versions was switched back to the first, which
\* has another text than the second and no art, and the live art is absent
C28_Witness ==
  \E k \in DOMAIN ideas :
    /\ Len(ideas[k].versions) = 2
    /\ ideas[k].currentVersionIndex = 0
    /\ ideas[k].text = ideas[k].versions[1].text
    /\ ideas[k].text # ideas[k].versions[2].text
    /\ ideas[k].versions[1].asciiArt = Undefined
    /\ ideas[k].versions[2].asciiArt = "art"
    /\ ideas[k].asciiArt = Undefined


\* C29 as stated: the history of a main-content request is the live texts of
\* all nodes whose live text is non-empty when the request is issued, by
\* ascending id. (A drawn or regenerated node's request is issued in the step
\* that starts the chain, a concept's request when its point has resolved.)
C29_HistoryOfAllNodesAtIssue ==
  [][ /\ (started' = started + 1 /\ chains'[Len(chains')].pc = "main") =>
           TextsByIdOf(chains'[Len(chains')].history, ideas',
                       { k \in DOMAIN ideas' : ideas'[k].text # "" })
      /\ \A c \in DOMAIN chains :
           Advanced(c, "point", "main") =>
             TextsByIdOf(chains[c].history, ideas,
                         { k \in DOMAIN ideas : ideas[k].text # "" }) ]_vars

\* C29, amended: the history of a chain is taken in the step that starts the
\* chain: the live texts, by ascending id, of the nodes other than the chain's
\* own whose live text is non-empty in that step; the chain keeps this history
\* through all its later steps, so the main-content request of a concept is
\* issued with the history of the moment the concept was chosen.
C29_HistoryOfOthersAtStart ==
  [][ /\ started' = started + 1 =>
           /\ TextsByIdOf(chains'[Len(chains')].history, ideas,
                          { k \in DOMAIN ideas :
                              /\ ideas[k].id # chains'[Len(chains')].id
                              /\ ideas[k].text # "" })
           /\ \A c \in DOMAIN chains : chains'[c] = chains[c]
      /\ \A c \in DOMAIN chains :
           Len(chains') = Len(chains) => chains'[c].history = chains[c].history ]_vars

\* C29, reached: node 0 is regenerated; its own text "alpha" is not in the
\* history of the request, the text of node 1 is
C29_Witness ==
  \E c \in DOMAIN chains :
    /\ chains[c].id = 0
    /\ chains[c].pc = "main"
    /\ chains[c].history = << "beta" >>
    /\ Len(ideas) = 2
    /\ ideas[1].id = 0 /\ ideas[1].text = "alpha"
    /\ ideas[2].id = 1 /\ ideas[2].text = "beta"


\* C30: for a rectangle that overlaps a node (gap counted), findValidSpot
\* returns the rectangle moved by (dx * 20, dy * 20), with the same width and
\* height, clear of every node by the gap, where the ring max(|dx|, |dy|) is in
\* 1..40, no offset of a smaller ring clears, and no offset of the same ring
\* that the scan visits earlier (smaller dx, or the same dx and smaller dy)
\* clears; it returns the rectangle itself only when no offset of any ring
\* clears.
C30_FirstClearOffsetOfSmallestRing ==
  \A rect \in PlacedRects :
    LET res == findValidSpot(ideas, rect)
        dx == (res.x - rect.x) \div 20
        dy == (res.y - rect.y) \div 20
        r == IF Abs(dx) > Abs(dy) THEN Abs(dx) ELSE Abs(dy)
        Clears(o) == \A k \in DOMAIN ideas :
                       GapClear([ x |-> rect.x + o[1] * 20, y |-> rect.y + o[2] * 20,
                                  width |-> rect.width, height |-> rect.height ],
                                ideas[k])
    IN  (\E k \in DOMAIN ideas : ~ GapClear(rect, ideas[k])) =>
          IF res = rect
          THEN \A o \in ((-maxRings)..maxRings) \X ((-maxRings)..maxRings) : ~ Clears(o)
          ELSE /\ res = [ x |-> rect.x + dx * 20, y |-> rect.y + dy * 20,
                          width |-> rect.width, height |-> rect.height ]
               /\ r \in 1..maxRings
               /\ Clears(<< dx, dy >>)
               /\ \A o \in ((-r)..r) \X ((-r)..r) :
                    Clears(o) =>
                      /\ (Abs(o[1]) = r \/ Abs(o[2]) = r)
                      /\ (dx < o[1] \/ (dx = o[1] /\ dy <= o[2]))

\* C30, reached: the rectangle drawn at (50, 50) over the node at (0, 0) was
\* moved to the first clear offset of ring 9, which is (-9, 9)
C30_Witness ==
  /\ Len(ideas) = 2
  /\ RectOf(ideas[1]) = [ x |-> 0, y |-> 0, width |-> 300, height |-> 200 ]
  /\ RectOf(ideas[2]) = [ x |-> 50 - 9 * 20, y |-> 50 + 9 * 20, width |-> 300, height |-> 200 ]


\* C31: a click on a suggestion whose source node is in the list empties the
\* suggestion set and appends exactly one node, with the id the counter had
\* (an id no node has), no versions and isLoading true; a click on a
\* suggestion whose source node is not in the list does nothing at all.
C31_ConsumeSuggestion ==
  /\ [] ( \A k \in DOMAIN activeSuggestions, draw \in SuggestionDraws :
            ~ HasIdea(ideas, activeSuggestions[k].sourceId)
              => ~ ENABLED SuggestionClick(activeSuggestions[k], draw) )
  /\ [][ \A k \in DOMAIN activeSuggestions, draw \in SuggestionDraws :
           SuggestionClick(activeSuggestions[k], draw) =>
             /\ HasIdea(ideas, activeSuggestions[k].sourceId)
             /\ activeSuggestions' = << >>
             /\ Len(ideas') = Len(ideas) + 1
             /\ SubSeq(ideas', 1, Len(ideas)) = ideas
             /\ ideas'[Len(ideas')].id = ideaIdCounter
             /\ ideaIdCounter \notin IdeaIds(ideas)
             /\ ideaIdCounter' = ideaIdCounter + 1
             /\ ideas'[Len(ideas')].versions = << >>
             /\ ideas'[Len(ideas')].isLoading ]_vars

\* C31, reached: the suggestions of node 0 were consumed: the set is empty
\* while the chain of node 0 that materialized them still waits for its art,
\* and node 1 loads the consumed concept
C31_Witness ==
  /\ started = 2
  /\ activeSuggestions = << >>
  /\ Len(ideas) = 2
  /\ ideas[2].id = 1 /\ ideas[2].isLoading /\ ideas[2].versions = << >>
  /\ Len(chains) = 2
  /\ chains[1].id = 0 /\ chains[1].pc = "art" /\ chains[1].suggestedPaths > 0
  /\ chains[2].id = 1 /\ chains[2].kind = "concept"


\* C32: the chain of a node created from a concept first waits for the
\* concept's point, and asks for the main content only in the step in which
\* the point resolves; until then the node has no version. When the point
\* request fails the chain ends in that step, without a main-content request,
\* and the node is left with an error, no versions, currentVersionIndex -1 and
\* both loading flags false.
C32_PointFailureEndsChain ==
  /\ [] ( \A c \in DOMAIN chains :
            /\ chains[c].kind = "concept" => chains[c].pc \in { "point", "main", "sugg", "art" }
            /\ chains[c].pc = "point" =>
                 /\ chains[c].kind = "concept"
                 /\ HasIdea(ideas, chains[c].id) =>
                      /\ FindIdea(ideas, chains[c].id).versions = << >>
                      /\ FindIdea(ideas, chains[c].id).isLoading )
  /\ [][ /\ (started' = started + 1 /\ chains'[Len(chains')].kind = "concept") =>
              chains'[Len(chains')].pc = "point"
         /\ \A c \in DOMAIN chains :
              (chains[c].kind = "concept" /\ Advanced(c, "point", "main")) =>
                ideas' = ideas
         /\ \A c \in DOMAIN chains :
              (Ended(c, "point") /\ HasIdea(ideas, chains[c].id)) =>
                LET after == FindIdea(ideas', chains[c].id)
                IN  /\ after.error # Null
                    /\ after.versions = << >>
                    /\ after.currentVersionIndex = -1
                    /\ ~ after.isLoading
                    /\ ~ after.isAsciiLoading ]_vars

\* C32, reached: the node of a clicked term whose point request failed
\* without a message, at rest with the fallback error and no version
C32_Witness ==
  \E k \in DOMAIN ideas :
    /\ ideas[k].error = "Failed to place concept."
    /\ ideas[k].versions = << >>
    /\ ideas[k].currentVersionIndex = -1
    /\ ~ ideas[k].isLoading
    /\ ~ ideas[k].isAsciiLoading
    /\ ChainsOf(ideas[k].id) = {}


\* C33: the step that materializes the suggestions of a node in the list (one,
\* two or three of them) gives each the x of the node's right edge plus 100,
\* stacks them downwards without overlap, and centres the stack (from the top
\* of the first to the bottom of the last) on the vertical centre of the
\* node's rectangle in the list.
C33_SuggestionsCentredOnNode ==
  [][ \A c \in DOMAIN chains :
        ( /\ Advanced(c, "sugg", "art")
          /\ chains'[c].suggestedPaths > 0
          /\ HasIdea(ideas, chains[c].id) ) =>
          LET node == FindIdea(ideas, chains[c].id)
              n == Len(activeSuggestions')
              top == activeSuggestions'[1].y
              bottom == activeSuggestions'[n].y + activeSuggestions'[n].height
          IN  /\ n = chains'[c].suggestedPaths
              /\ \A k \in 1..n :
                   activeSuggestions'[k].x = node.x + node.width + 100
              /\ \A k \in 1..(n - 1) :
                   activeSuggestions'[k].y + activeSuggestions'[k].height
                     <= activeSuggestions'[k + 1].y
              /\ top + bottom = 2 * node.y + node.height ]_vars


\* C34: handleBringToFront(id) leaves the node id and every node clear of its
\* toolbar band where they are, and moves every other node along one axis
\* only: up or down when its centre is further from the band's centre
\* vertically than horizontally (up if it is above, down if below), left or
\* right otherwise (left if its centre is to the left, right if to the right).
C34_NudgeAlongLargerOffset ==
  \A a \in DOMAIN ideas :
    LET band == ToolbarRect(ideas[a])
        after == BroughtToFront(ideas, ideas[a].id)
    IN  \A k \in DOMAIN ideas :
          LET node == ideas[k]
              apart == \/ node.x + node.width < band.x
                       \/ node.x > band.x + band.width
                       \/ node.y + node.height < band.y
                       \/ node.y > band.y + band.height
              dy2 == (2 * node.y + node.height) - (2 * band.y + band.height)
              dx2 == (2 * node.x + node.width) - (2 * band.x + band.width)
          IN  IF k = a \/ apart THEN after[k] = node
              ELSE IF Abs(dy2) > Abs(dx2)
              THEN /\ after[k] = [ node EXCEPT !.y = after[k].y ]
                   /\ dy2 < 0 => after[k].y < node.y
                   /\ dy2 > 0 => after[k].y > node.y
              ELSE /\ after[k] = [ node EXCEPT !.x = after[k].x ]
                   /\ dx2 < 0 => after[k].x < node.x
                   /\ dx2 > 0 => after[k].x > node.x


\* C35: a wheel zoom whose clamped result is the current zoom is no step at
\* all, wherever the pointer is; and no step of the viewport that leaves the
\* zoom and the nodes as they are moves the view.
C35_ZoomAtLimitIsNoStep ==
  /\ [] ( \A delta \in ZoomDeltas, center \in ZoomCenters \cup { panOffset } :
            Clamp(30, 200, zoom + delta) = zoom => ~ ENABLED handleZoom(delta, center) )
  /\ [][ zoom' = zoom /\ ideas' = ideas => panOffset' = panOffset ]_vars

\* C35, reached: the zoom stands at the upper limit, where a wheel zoom
\* further in is clamped to it, with the view moved off its initial offset
C35_Witness ==
  /\ zoom = 200
  /\ \E delta \in ZoomDeltas : delta > 0 /\ Clamp(30, 200, zoom + delta) = zoom
  /\ panOffset # [ x |-> 0, y |-> 0 ]


\* C36: a node in the store with no chain in flight for its id is not loading
\* (neither isLoading nor isAsciiLoading); and when every provider call
\* eventually resolves or rejects, the chains all end, after which no node
\* in the store is loading any more.
C36_NoNodeLoadsForever ==
  /\ [] ( \A k \in DOMAIN ideas :
            ChainsOf(ideas[k].id) = { } =>
              ~ ideas[k].isLoading /\ ~ ideas[k].isAsciiLoading )
  /\ <>[] ( /\ chains = << >>
            /\ \A k \in DOMAIN ideas : ~ ideas[k].isLoading /\ ~ ideas[k].isAsciiLoading )

\* C36, reached: both chains of a regenerated node have ended; the node has
\* its two versions, no chain left and both flags down
C36_Witness ==
  /\ chains = << >>
  /\ started = 2
  /\ \E k \in DOMAIN ideas :
       /\ Len(ideas[k].versions) = 2
       /\ ~ ideas[k].isLoading /\ ~ ideas[k].isAsciiLoading


\* C37: in every reachable state a node whose error is not null has neither
\* isLoading nor isAsciiLoading set.
C37_ErrorMeansNotLoading ==
  \A k \in DOMAIN ideas :
    ideas[k].error # Null => ~ ideas[k].isLoading /\ ~ ideas[k].isAsciiLoading

\* C37, reached: a regenerated node carries the error of one of its chains
\* while the other chain is still in flight
C37_Witness ==
  \E k \in DOMAIN ideas :
    /\ ideas[k].error # Null
    /\ ChainsOf(ideas[k].id) # { }
    /\ started = 2


\* C38: in every reachable state a node that is not loading (isLoading false)
\* and has no error (error null) has at least one version.
C38_FinishedNodeHasVersion ==
  \A k \in DOMAIN ideas :
    ~ ideas[k].isLoading /\ ideas[k].error = Null => Len(ideas[k].versions) >= 1

\* C38, reached: of two chains in flight on one node, one has delivered its
\* main content and the other has not yet; the node shows as finished
C38_Witness ==
  \E k \in DOMAIN ideas :
    /\ ~ ideas[k].isLoading /\ ideas[k].error = Null
    /\ Len(ideas[k].versions) = 1
    /\ \E c \in ChainsOf(ideas[k].id) : chains[c].pc = "main"


\* C39: whenever no two nodes overlap once the 24-unit gap is counted, the
\* same is true of the node list handleBringToFront(id) returns, for every
\* node id.
C39_BringToFrontKeepsNodesApart ==
  ( \A j, k \in DOMAIN ideas : j # k => GapClear(ideas[j], ideas[k]) )
    => \A a \in DOMAIN ideas :
         LET after == BroughtToFront(ideas, ideas[a].id)
         IN  \A j, k \in DOMAIN after : j # k => GapClear(after[j], after[k])


\* C40: in every reachable state with an empty node store,
\* totalCharsGenerated is 0.
C40_EmptyStoreHasNoChars ==
  ideas = << >> => totalCharsGenerated = 0

===========================================================================
